---------------------------- MODULE Spec2Model ----------------------------
(***************************************************************************)
(* Model of modern-elt-warehouse/scripts/data_profiler.py: the per-column  *)
(* and per-dataset statistics of analyze_dataframe, the quality score of   *)
(* generate_quality_score, and the control flow of main (the loop over     *)
(* CSV_FILES followed by the three report writers).                        *)
(* A third specification models modern-elt-warehouse/scripts/gcs_loader.py: *)
(* the object path of an upload and the control flow of its main.          *)
(*                                                                         *)
(* Numbers.  A Python/numpy float is modelled as a record: Num(v) for a    *)
(* finite value and NaN for not-a-number.  Percentages are kept in         *)
(* hundredths of a percent (the code rounds them to 2 decimals), scores in *)
(* units of 1/ScoreScale of a point, so that every value the code can      *)
(* produce from a rounded percentage is an integer of the model.           *)
(*                                                                         *)
(* Frames.  A DataFrame is [dtypes, rows]: one dtype per column and a      *)
(* sequence of rows, a row being a tuple of cells.  A cell is NULL (NaN /  *)
(* None) or Val(v), v a number in a float64 column and a string in an      *)
(* object column.                                                          *)
(***************************************************************************)
EXTENDS Integers, Sequences, FiniteSets, TLC

(***************************************************************************)
(* Bounds of the model.                                                    *)
(***************************************************************************)
MaxRows == 4        \* rows of a frame handed to analyze_dataframe
CsvMaxRows == 2     \* rows of a frame read from a file in main's loop
MaxFiles == 2       \* entries of CSV_FILES that main's loop goes through
MaxPerturb == 2     \* profiles derived from an analysed one by raising a percentage
MaxFound == 2       \* gcs_loader: *.csv entries in the raw directory

(***************************************************************************)
(* Floats.                                                                 *)
(***************************************************************************)
NaN == [nan |-> TRUE, val |-> 0]
Num(v) == [nan |-> FALSE, val |-> v]
IsNaN(x) == x.nan

\* round(..., 2): two decimals are kept, so a percentage is a count of hundredths
PctScale == 100
\* a score unit is 1/ScoreScale of a point: null_percentage * 0.5 of a
\* percentage given in hundredths is then a whole number of units
ScoreScale == 2 * PctScale

FSub(a, b) == IF IsNaN(a) \/ IsNaN(b) THEN NaN ELSE Num(a.val - b.val)
FAdd(a, b) == IF IsNaN(a) \/ IsNaN(b) THEN NaN ELSE Num(a.val + b.val)
\* a comparison with NaN is False
FGt(a, b) == ~IsNaN(a) /\ ~IsNaN(b) /\ a.val > b.val
FGe(a, b) == ~IsNaN(a) /\ ~IsNaN(b) /\ a.val >= b.val

\* sum() of a sequence of floats, from position i on
RECURSIVE FSum(_, _)
FSum(xs, i) == IF i > Len(xs) THEN Num(0) ELSE FAdd(xs[i], FSum(xs, i + 1))

\* x / n for an integer n > 0, truncated to a whole unit of x
FDivInt(x, n) == IF IsNaN(x) THEN NaN ELSE Num(x.val \div n)

\* num / den rounded to the nearest integer, ties to even (Python's and numpy's round)
RoundHalfEven(num, den) ==
    LET q == num \div den
        r == num % den
    IN  IF 2 * r < den THEN q
        ELSE IF 2 * r > den THEN q + 1
        ELSE IF q % 2 = 0 THEN q ELSE q + 1

\* round((count / len(df) * 100), 2) with count a numpy integer: a zero
\* len(df) gives nan (numpy warns, it does not raise), and round keeps nan
Percentage(count, n) ==
    IF n = 0 THEN NaN ELSE Num(RoundHalfEven(count * 100 * PctScale, n))

(***************************************************************************)
(* Frames.                                                                 *)
(***************************************************************************)
NULL == <<>>
Val(v) == <<v>>
IsNull(cell) == cell = NULL

Columns == <<"a", "b">>
ColIdx == 1..Len(Columns)

NumCells == {NULL, Val(1)}
StrCells == {NULL, Val(""), Val("ab")}
CellsOf(dtype) == IF dtype = "float64" THEN NumCells ELSE StrCells

Layouts == {<<"float64", "object">>, <<"float64", "float64">>}

\* the rows of a frame with these dtypes: one cell of its column's kind per column
RECURSIVE RowsUpTo(_, _)
RowsUpTo(layout, c) ==
    IF c = 0 THEN {<<>>}
    ELSE {Append(row, cell) : row \in RowsUpTo(layout, c - 1), cell \in CellsOf(layout[c])}

RowsOf(layout) == RowsUpTo(layout, Len(layout))

SeqsUpTo(S, n) == UNION {[1..k -> S] : k \in 0..n}

\* what pd.read_csv returns for a file that holds a header line and no data row
HeaderOnlyFrame == [dtypes |-> [c \in ColIdx |-> "object"], rows |-> <<>>]

\* the frames analyze_dataframe is applied to
AllFrames ==
    {HeaderOnlyFrame} \cup
    UNION {{[dtypes |-> layout, rows |-> rows] :
               rows \in SeqsUpTo(RowsOf(layout), MaxRows)} : layout \in Layouts}

NonNull(frame, c) == {i \in 1..Len(frame.rows) : ~IsNull(frame.rows[i][c])}

\* pd.read_csv: a file with a header and no data rows gives object columns;
\* an empty field is read as NaN, so no cell is the empty string, and a
\* column with no value at all is float64, never object
CsvFrames ==
    {frame \in AllFrames :
        /\ Len(frame.rows) <= CsvMaxRows
        /\ IF Len(frame.rows) = 0
           THEN \A c \in ColIdx : frame.dtypes[c] = "object"
           ELSE /\ frame.dtypes = <<"float64", "object">>
                /\ \A c \in ColIdx : frame.dtypes[c] = "object" =>
                      /\ NonNull(frame, c) # {}
                      /\ \A i \in NonNull(frame, c) : frame.rows[i][c] # Val("")}

NoFrame == [dtypes |-> <<>>, rows |-> <<>>]

(***************************************************************************)
(* State.                                                                  *)
(***************************************************************************)
VARIABLES
    pc,               \* position in main (or in the direct call of the functions)
    strict_strings,   \* the installed pandas: is_string_dtype inspects the values (2.x) or not
    raw_dir_exists,   \* RAW_DIR.exists()
    idx,              \* main's loop: position in CSV_FILES of the file in hand
    df,               \* the frame load_csv returned
    profiles,         \* main's profiles dict: filename -> profile
    quality_score,    \* the last value generate_quality_score returned
    console,          \* main's per-file lines: <<filename, what was printed>>
    scores,           \* the score each caller printed or wrote: <<caller, filename, score>>
    reports,          \* what the writers produced: table, json document, markdown report
    exit_code,        \* the process's exit status ("0" or "1") once it has ended
    baseline,         \* direct calls: the profile and score a raised percentage is compared with
    perturbs,         \* direct calls: how many times a percentage was raised
    loader            \* gcs_loader: its inputs, the files found, results, bucket objects, manifest

vars == <<pc, strict_strings, raw_dir_exists, idx, df, profiles, quality_score,
          console, scores, reports, exit_code, baseline, perturbs, loader>>

(***************************************************************************)
(* Results of a call that may raise.                                       *)
(***************************************************************************)
Return(v) == [raised |-> "None", value |-> v]
Raise(e) == [raised |-> e, value |-> <<>>]
Raised(r) == r.raised # "None"

(***************************************************************************)
(* pandas reductions used by analyze_dataframe.                            *)
(***************************************************************************)
RECURSIVE SumOver(_, _)
SumOver(f, S) ==
    IF S = {} THEN 0
    ELSE LET i == CHOOSE j \in S : TRUE IN f[i] + SumOver(f, S \ {i})

\* df.duplicated(): rows are visited in order and a row already seen is
\* marked (keep="first"); missing values compare equal to each other
RECURSIVE duplicated_from(_, _, _)
duplicated_from(rows, i, seen) ==
    IF i > Len(rows) THEN <<>>
    ELSE <<rows[i] \in seen>> \o duplicated_from(rows, i + 1, seen \cup {rows[i]})

\* a variant of duplicated that marks every row of a group of equal rows (keep=False)
duplicated_KeepFalse(frame) ==
    [i \in 1..Len(frame.rows) |->
        \E j \in 1..Len(frame.rows) : j # i /\ frame.rows[j] = frame.rows[i]]

duplicated(frame) == duplicated_from(frame.rows, 1, {})

\* Series.sum() of a boolean series
BoolSum(s) == Cardinality({i \in 1..Len(s) : s[i]})

\* a variant of isna_sum that takes the empty string for a missing value
isna_sum_EmptyIsNull(frame, c) ==
    Cardinality({i \in 1..Len(frame.rows) :
                    \/ IsNull(frame.rows[i][c])
                    \/ frame.dtypes[c] = "object" /\ frame.rows[i][c] = Val("")})

notna_sum(frame, c) == Cardinality({i \in 1..Len(frame.rows) : ~IsNull(frame.rows[i][c])})
isna_sum(frame, c) == Cardinality({i \in 1..Len(frame.rows) : IsNull(frame.rows[i][c])})

\* a variant of nunique that counts the missing value as a value (dropna=False)
nunique_CountNull(frame, c) == Cardinality({frame.rows[i][c] : i \in 1..Len(frame.rows)})

\* Series.nunique(): dropna=True, missing values are not counted
nunique(frame, c) == Cardinality({frame.rows[i][c] : i \in NonNull(frame, c)})

\* the numbers of a float64 column, by row, and the lengths of an object column
NumAt(frame, c) == [i \in NonNull(frame, c) |-> frame.rows[i][c][1]]
LenAt(frame, c) == [i \in NonNull(frame, c) |-> Len(frame.rows[i][c][1])]

\* min() / max() skip missing values; of nothing they are nan
SMin(f) == IF DOMAIN f = {} THEN NaN
           ELSE Num(CHOOSE v \in {f[i] : i \in DOMAIN f} : \A i \in DOMAIN f : v <= f[i])
SMax(f) == IF DOMAIN f = {} THEN NaN
           ELSE Num(CHOOSE v \in {f[i] : i \in DOMAIN f} : \A i \in DOMAIN f : v >= f[i])

\* mean(), in hundredths (truncated)
SMean(f) == IF DOMAIN f = {} THEN NaN
            ELSE Num((SumOver(f, DOMAIN f) * PctScale) \div Cardinality(DOMAIN f))

\* the k-th smallest value of f
KthSmallest(f, k) ==
    CHOOSE v \in {f[i] : i \in DOMAIN f} :
        /\ Cardinality({i \in DOMAIN f : f[i] < v}) < k
        /\ Cardinality({i \in DOMAIN f : f[i] <= v}) >= k

\* median(), in hundredths: the middle value, or the mean of the two middle ones
SMedian(f) ==
    LET n == Cardinality(DOMAIN f)
    IN  IF n = 0 THEN NaN
        ELSE IF n % 2 = 1 THEN Num(KthSmallest(f, (n + 1) \div 2) * PctScale)
        ELSE Num(((KthSmallest(f, n \div 2) + KthSmallest(f, n \div 2 + 1)) * PctScale) \div 2)

RECURSIVE ISqrtFrom(_, _)
ISqrtFrom(n, r) == IF (r + 1) * (r + 1) > n THEN r ELSE ISqrtFrom(n, r + 1)

\* std(): the sample standard deviation (ddof=1), in hundredths (truncated);
\* nan for fewer than two values
SStd(f) ==
    LET n == Cardinality(DOMAIN f)
        s == SumOver(f, DOMAIN f)
        sq == SumOver([i \in DOMAIN f |-> f[i] * f[i]], DOMAIN f)
    IN  IF n < 2 THEN NaN
        ELSE Num(ISqrtFrom(((n * sq - s * s) * PctScale * PctScale) \div (n * (n - 1)), 0))

\* int(x): a nan cannot be converted
PyInt(x) == IF IsNaN(x) THEN Raise("ValueError") ELSE Return(x.val)

is_numeric_dtype(frame, c) == frame.dtypes[c] = "float64"

\* pandas 2.x looks at the values of an object column (every one must be a
\* string, an empty column passes); earlier versions accept any object column
is_string_dtype(frame, c) ==
    /\ frame.dtypes[c] = "object"
    /\ \/ ~strict_strings
       \/ Len(frame.rows) = 0
       \/ \A i \in 1..Len(frame.rows) : ~IsNull(frame.rows[i][c])

(***************************************************************************)
(* analyze_dataframe.                                                      *)
(***************************************************************************)
\* lines 82-88: the fields every column gets
col_info_base(frame, c) ==
    [dtype |-> frame.dtypes[c],
     non_null |-> notna_sum(frame, c),
     null |-> isna_sum(frame, c),
     null_percentage |-> Percentage(isna_sum(frame, c), Len(frame.rows)),
     unique |-> nunique(frame, c)]

\* lines 91-98: float(nan) is nan, so no statistic of a numeric column raises
numeric_stats(frame, c) ==
    [mean |-> SMean(NumAt(frame, c)),
     median |-> SMedian(NumAt(frame, c)),
     min |-> SMin(NumAt(frame, c)),
     max |-> SMax(NumAt(frame, c)),
     std |-> SStd(NumAt(frame, c))]

\* lines 101-106: int() of the nan that min() and max() give for a column
\* with no string raises ValueError
string_stats(frame, c) ==
    LET lo == PyInt(SMin(LenAt(frame, c)))
        hi == PyInt(SMax(LenAt(frame, c)))
    IN  IF Raised(lo) THEN lo
        ELSE IF Raised(hi) THEN hi
        ELSE Return([min_length |-> lo.value,
                     max_length |-> hi.value,
                     empty_strings |-> Cardinality({i \in NonNull(frame, c) :
                                                       LenAt(frame, c)[i] = 0})])

\* lines 81-108: one column's col_info, or the exception raised while building it
analyze_column(frame, c) ==
    IF is_numeric_dtype(frame, c)
    THEN Return(col_info_base(frame, c) @@ numeric_stats(frame, c))
    ELSE IF is_string_dtype(frame, c)
    THEN LET st == string_stats(frame, c)
         IN  IF Raised(st) THEN st ELSE Return(col_info_base(frame, c) @@ st.value)
    ELSE Return(col_info_base(frame, c))

\* the duplicates entry of the profile (lines 73-76)
duplicates_info(frame) ==
    [total |-> BoolSum(duplicated(frame)),
     percentage |-> Percentage(BoolSum(duplicated(frame)), Len(frame.rows))]

\* lines 66-110.  columns_info is keyed by the column's position in
\* df.columns (the dict keeps that order); size_mb, an estimate that nothing
\* but the report's text reads, is left out
analyze_dataframe(frame, filename) ==
    LET infos == [c \in ColIdx |-> analyze_column(frame, c)]
        bad == {c \in ColIdx : Raised(infos[c])}
    IN  IF bad # {}
        THEN infos[CHOOSE c \in bad : \A d \in bad : c <= d]
        ELSE Return([filename |-> filename,
                     rows |-> Len(frame.rows),
                     columns |-> Len(frame.dtypes),
                     duplicates |-> duplicates_info(frame),
                     columns_info |-> [c \in ColIdx |-> infos[c].value]])

(***************************************************************************)
(* generate_quality_score.                                                 *)
(***************************************************************************)
\* a variant of null_penalty with the sign of the deduction reversed
null_penalty_Reversed(pct) ==
    IF IsNaN(pct) THEN NaN ELSE Num(0 - (pct.val * ScoreScale) \div (2 * PctScale))

\* col_info["null_percentage"] * 0.5, in score units
null_penalty(pct) == IF IsNaN(pct) THEN NaN ELSE Num((pct.val * ScoreScale) \div (2 * PctScale))

\* profile["duplicates"]["percentage"] * 2, in score units
duplicate_penalty(pct) == IF IsNaN(pct) THEN NaN ELSE Num((pct.val * 2 * ScoreScale) \div PctScale)

\* a variant of floor_at_zero that applies no floor
floor_at_zero_Missing(score) == score

\* max(0, score): score is returned when score > 0 is True, which it is not for nan
floor_at_zero(score) == IF FGt(score, Num(0)) THEN score ELSE Num(0)

\* lines 125-126: the loop over profile["columns_info"].values()
RECURSIVE deduct_nulls(_, _, _)
deduct_nulls(score, columns_info, c) ==
    IF c > Len(columns_info) THEN score
    ELSE deduct_nulls(FSub(score, null_penalty(columns_info[c].null_percentage)),
                      columns_info, c + 1)

\* a variant of generate_quality_score that deducts the average null
\* percentage of the columns instead of their sum
generate_quality_score_Averaged(profile) ==
    floor_at_zero(
        FSub(FSub(Num(100 * ScoreScale),
                  null_penalty(FDivInt(FSum([c \in 1..Len(profile.columns_info) |->
                                                profile.columns_info[c].null_percentage], 1),
                                       Len(profile.columns_info)))),
             duplicate_penalty(profile.duplicates.percentage)))

\* lines 113-132
generate_quality_score(profile) ==
    floor_at_zero(FSub(deduct_nulls(Num(100 * ScoreScale), profile.columns_info, 1),
                       duplicate_penalty(profile.duplicates.percentage)))

(***************************************************************************)
(* main: configuration and initial state.                                  *)
(***************************************************************************)
AllCsvFiles ==
    <<"olist_orders_dataset.csv", "olist_order_items_dataset.csv",
      "olist_customers_dataset.csv", "olist_sellers_dataset.csv",
      "olist_products_dataset.csv", "olist_order_payments_dataset.csv",
      "olist_order_reviews_dataset.csv", "olist_geolocation_dataset.csv",
      "product_category_name_translation.csv">>

\* the same names as sorted() orders them ("_" sorts before "s")
AllCsvFilesSorted ==
    <<"olist_customers_dataset.csv", "olist_geolocation_dataset.csv",
      "olist_order_items_dataset.csv", "olist_order_payments_dataset.csv",
      "olist_order_reviews_dataset.csv", "olist_orders_dataset.csv",
      "olist_products_dataset.csv", "olist_sellers_dataset.csv",
      "product_category_name_translation.csv">>

CSV_FILES == SubSeq(AllCsvFiles, 1, MaxFiles)
FileNames == {CSV_FILES[i] : i \in 1..Len(CSV_FILES)}

NoProfiles == [f \in {} |-> NaN]
NoReports == [table |-> <<>>, json |-> <<>>, markdown |-> <<>>]
NoBaseline == [set |-> FALSE, profile |-> <<>>, score |-> NaN]

Running == "running"
\* gcs_loader has not run
NoLoader == [date |-> <<>>, auth_ok |-> FALSE, bucket_exists |-> FALSE, raw_dir |-> <<>>,
             csv_files |-> <<>>, results |-> <<>>, blobs |-> {}, manifest |-> <<>>]

InitCommon ==
    /\ strict_strings \in BOOLEAN
    /\ idx = 1
    /\ profiles = NoProfiles
    /\ quality_score = NaN
    /\ console = <<>>
    /\ scores = {}
    /\ reports = NoReports
    /\ exit_code = Running
    /\ baseline = NoBaseline
    /\ perturbs = 0

Init ==
    /\ InitCommon
    /\ pc = "start"
    /\ raw_dir_exists \in BOOLEAN
    /\ df = NoFrame
    /\ loader = NoLoader

(***************************************************************************)
(* main: the loop over CSV_FILES (lines 303-340).                          *)
(***************************************************************************)
\* lines 303-311
CheckRawDir ==
    /\ pc = "start"
    /\ IF raw_dir_exists
       THEN pc' = "loop" /\ exit_code' = exit_code
       ELSE pc' = "exited" /\ exit_code' = "1"
    /\ UNCHANGED <<strict_strings, raw_dir_exists, idx, df, profiles, quality_score,
                   console, scores, reports, baseline, perturbs, loader>>

\* lines 321-323: the file is not there; a line is printed and the loop goes on
FileNotFound ==
    /\ pc = "loop"
    /\ idx <= Len(CSV_FILES)
    /\ console' = Append(console, <<CSV_FILES[idx], "Not found">>)
    /\ idx' = idx + 1
    /\ UNCHANGED <<pc, strict_strings, raw_dir_exists, df, profiles, quality_score,
                   scores, reports, exit_code, baseline, perturbs, loader>>

\* a variant of LoadCsvFails in which the profile of the file before is
\* stored again under the name of the file that failed to load
LoadCsvFails_StoresStale ==
    /\ pc = "loop"
    /\ idx <= Len(CSV_FILES)
    /\ console' = Append(console, <<CSV_FILES[idx], "Failed to load">>)
    /\ profiles' = IF idx > 1 /\ CSV_FILES[idx - 1] \in DOMAIN profiles
                   THEN (CSV_FILES[idx] :> profiles[CSV_FILES[idx - 1]]) @@ profiles
                   ELSE profiles
    /\ idx' = idx + 1
    /\ UNCHANGED <<pc, strict_strings, raw_dir_exists, df, quality_score,
                   scores, reports, exit_code, baseline, perturbs, loader>>

\* lines 325, 335-336 and 61-63: pd.read_csv raised, load_csv returned
\* (False, None); a line is printed and the loop goes on
LoadCsvFails ==
    /\ pc = "loop"
    /\ idx <= Len(CSV_FILES)
    /\ console' = Append(console, <<CSV_FILES[idx], "Failed to load">>)
    /\ idx' = idx + 1
    /\ UNCHANGED <<pc, strict_strings, raw_dir_exists, df, profiles, quality_score,
                   scores, reports, exit_code, baseline, perturbs, loader>>

\* lines 325-327 and 58-60: load_csv returned (True, df)
LoadCsvOk ==
    /\ pc = "loop"
    /\ idx <= Len(CSV_FILES)
    /\ \E frame \in CsvFrames : df' = frame
    /\ pc' = "analyze"
    /\ UNCHANGED <<strict_strings, raw_dir_exists, idx, profiles, quality_score,
                   console, scores, reports, exit_code, baseline, perturbs, loader>>

\* lines 328-329: analyze_dataframe is called outside any try, so what it
\* raises leaves main: a traceback and exit status 1
Analyze ==
    /\ pc = "analyze"
    /\ LET r == analyze_dataframe(df, CSV_FILES[idx])
       IN  IF Raised(r)
           THEN /\ pc' = "crashed"
                /\ exit_code' = "1"
                /\ profiles' = profiles
           ELSE /\ pc' = "score"
                /\ exit_code' = exit_code
                /\ profiles' = (CSV_FILES[idx] :> r.value) @@ profiles
    /\ UNCHANGED <<strict_strings, raw_dir_exists, idx, df, quality_score,
                   console, scores, reports, baseline, perturbs, loader>>

\* lines 330-334, and the step to the next file; df is not read again
\* before load_csv assigns it
Score ==
    /\ pc = "score"
    /\ quality_score' = generate_quality_score(profiles[CSV_FILES[idx]])
    /\ console' = Append(console, <<CSV_FILES[idx], "Quality">>)
    /\ scores' = scores \cup {<<"main", CSV_FILES[idx],
                                generate_quality_score(profiles[CSV_FILES[idx]])>>}
    /\ idx' = idx + 1
    /\ df' = NoFrame
    /\ pc' = "loop"
    /\ UNCHANGED <<strict_strings, raw_dir_exists, profiles, reports,
                   exit_code, baseline, perturbs, loader>>

\* a variant of LoopEnd that leaves the loop as soon as one file has been handled
LoopEnd_Early ==
    /\ pc = "loop"
    /\ idx > 1
    /\ IF DOMAIN profiles = {}
       THEN pc' = "exited" /\ exit_code' = "1"
       ELSE pc' = "table" /\ exit_code' = exit_code
    /\ UNCHANGED <<strict_strings, raw_dir_exists, idx, df, profiles, quality_score,
                   console, scores, reports, baseline, perturbs, loader>>

\* a variant of LoopEnd without the test of lines 338-340
LoopEnd_NoCheck ==
    /\ pc = "loop"
    /\ idx > Len(CSV_FILES)
    /\ pc' = "table"
    /\ UNCHANGED <<strict_strings, raw_dir_exists, idx, df, profiles, quality_score,
                   console, scores, reports, exit_code, baseline, perturbs, loader>>

\* lines 338-340
LoopEnd ==
    /\ pc = "loop"
    /\ idx > Len(CSV_FILES)
    /\ IF DOMAIN profiles = {}
       THEN pc' = "exited" /\ exit_code' = "1"
       ELSE pc' = "table" /\ exit_code' = exit_code
    /\ UNCHANGED <<strict_strings, raw_dir_exists, idx, df, profiles, quality_score,
                   console, scores, reports, baseline, perturbs, loader>>

(***************************************************************************)
(* The report writers (lines 135-276).                                     *)
(***************************************************************************)
\* profiles.items(): a dict keeps insertion order, which is CSV_FILES order
ProfileOrder(ps) == SelectSeq(CSV_FILES, LAMBDA f : f \in DOMAIN ps)
\* sorted(profiles.items()): by filename
SortedOrder(ps) == SelectSeq(AllCsvFilesSorted, LAMBDA f : f \in DOMAIN ps)

\* a variant of average_score that divides by the number of expected files
average_score_OverAllFiles(ps) ==
    FDivInt(FSum([i \in 1..Len(ProfileOrder(ps)) |->
                     generate_quality_score(ps[ProfileOrder(ps)[i]])], 1),
            Len(CSV_FILES))

\* sum(generate_quality_score(p) for p in profiles.values()) / len(profiles)
average_score(ps) ==
    FDivInt(FSum([i \in 1..Len(ProfileOrder(ps)) |->
                     generate_quality_score(ps[ProfileOrder(ps)[i]])], 1),
            Len(ProfileOrder(ps)))

\* lines 150-153
average_null(profile) ==
    FDivInt(FSum([c \in 1..Len(profile.columns_info) |->
                     profile.columns_info[c].null_percentage], 1),
            Len(profile.columns_info))

\* lines 158-163
score_color(score) ==
    IF FGe(score, Num(90 * ScoreScale)) THEN "green"
    ELSE IF FGe(score, Num(70 * ScoreScale)) THEN "yellow"
    ELSE "red"

\* lines 146-172: one table row
table_row(profile) ==
    [filename |-> profile.filename,
     rows |-> profile.rows,
     columns |-> profile.columns,
     avg_null |-> average_null(profile),
     duplicates |-> profile.duplicates.total,
     quality_score |-> generate_quality_score(profile),
     color |-> score_color(generate_quality_score(profile))]

print_profile_table(ps) == [i \in 1..Len(ProfileOrder(ps)) |-> table_row(ps[ProfileOrder(ps)[i]])]

\* lines 184-193 (generated_at, a timestamp, is left out)
save_profile_json(ps) ==
    [profiles |-> ps,
     summary |-> [total_tables |-> Cardinality(DOMAIN ps),
                  avg_quality_score |-> average_score(ps)]]

\* a variant of column_issues that also flags a column at exactly 10 percent
RECURSIVE column_issues_Inclusive(_, _)
column_issues_Inclusive(columns_info, c) ==
    IF c > Len(columns_info) THEN <<>>
    ELSE (IF FGe(columns_info[c].null_percentage, Num(10 * PctScale))
          THEN <<[kind |-> "nulls", column |-> Columns[c]]>>
          ELSE <<>>) \o column_issues_Inclusive(columns_info, c + 1)

\* lines 248-259: the issues of one dataset, in the order they are appended
RECURSIVE column_issues(_, _)
column_issues(columns_info, c) ==
    IF c > Len(columns_info) THEN <<>>
    ELSE (IF FGt(columns_info[c].null_percentage, Num(10 * PctScale))
          THEN <<[kind |-> "nulls", column |-> Columns[c]]>>
          ELSE <<>>) \o column_issues(columns_info, c + 1)

quality_issues(profile) ==
    column_issues(profile.columns_info, 1) \o
    (IF FGt(profile.duplicates.percentage, Num(5 * PctScale))
     THEN <<[kind |-> "duplicates", column |-> ""]>>
     ELSE <<>>)

\* lines 222-267: one dataset's section; non_null / rows * 100 is kept in hundredths
report_section(profile) ==
    [filename |-> profile.filename,
     quality_score |-> generate_quality_score(profile),
     rows |-> profile.rows,
     columns |-> profile.columns,
     duplicates |-> profile.duplicates,
     non_null_pct |-> [c \in 1..Len(profile.columns_info) |->
                          (profile.columns_info[c].non_null * 100 * PctScale) \div profile.rows],
     issues |-> quality_issues(profile),
     no_issues_line |-> quality_issues(profile) = <<>>]

\* the files of the sorted order whose section is written: all of them,
\* or those before the first profile with rows = 0, where line 240 divides
\* by zero
RECURSIVE sections_written(_, _, _)
sections_written(ps, order, i) ==
    IF i > Len(order) \/ ps[order[i]].rows = 0 THEN <<>>
    ELSE <<report_section(ps[order[i]])>> \o sections_written(ps, order, i + 1)

generate_markdown_report(ps) ==
    [avg_score |-> average_score(ps),
     sections |-> sections_written(ps, SortedOrder(ps), 1),
     complete |-> \A f \in DOMAIN ps : ps[f].rows # 0]

\* the scores a writer computes, one per profile
ScoresOf(caller, ps) == {<<caller, f, generate_quality_score(ps[f])>> : f \in DOMAIN ps}

\* a variant of PrintProfileTable that, to print each null_percentage as a
\* fraction, divides it by 100 in the profile itself
AsFractionInPlace(profile) ==
    [profile EXCEPT !.columns_info =
        [c \in DOMAIN profile.columns_info |->
            [k \in DOMAIN profile.columns_info[c] |->
                IF k = "null_percentage" /\ ~IsNaN(profile.columns_info[c][k])
                THEN Num(profile.columns_info[c][k].val \div 100)
                ELSE profile.columns_info[c][k]]]]

PrintProfileTable_InPlace ==
    /\ pc = "table"
    /\ profiles' = [f \in DOMAIN profiles |-> AsFractionInPlace(profiles[f])]
    /\ reports' = [reports EXCEPT !.table = print_profile_table(profiles')]
    /\ scores' = scores \cup {<<"print_profile_table", f,
                                 generate_quality_score(profiles'[f])>> : f \in DOMAIN profiles}
    /\ pc' = "json"
    /\ UNCHANGED <<strict_strings, raw_dir_exists, idx, df, quality_score,
                   console, exit_code, baseline, perturbs, loader>>

\* line 343
PrintProfileTable ==
    /\ pc = "table"
    /\ reports' = [reports EXCEPT !.table = print_profile_table(profiles)]
    /\ scores' = scores \cup ScoresOf("print_profile_table", profiles)
    /\ pc' = "json"
    /\ UNCHANGED <<strict_strings, raw_dir_exists, idx, df, profiles, quality_score,
                   console, exit_code, baseline, perturbs, loader>>

\* line 346
SaveProfileJson ==
    /\ pc = "json"
    /\ reports' = [reports EXCEPT !.json = save_profile_json(profiles)]
    /\ scores' = scores \cup ScoresOf("save_profile_json", profiles)
    /\ pc' = "report"
    /\ UNCHANGED <<strict_strings, raw_dir_exists, idx, df, profiles, quality_score,
                   console, exit_code, baseline, perturbs, loader>>

\* line 347: a ZeroDivisionError at line 240 leaves main with the file half written
GenerateMarkdownReport ==
    /\ pc = "report"
    /\ reports' = [reports EXCEPT !.markdown = generate_markdown_report(profiles)]
    /\ scores' = scores \cup ScoresOf("generate_markdown_report", profiles)
    /\ IF generate_markdown_report(profiles).complete
       THEN pc' = "finish" /\ exit_code' = exit_code
       ELSE pc' = "crashed" /\ exit_code' = "1"
    /\ UNCHANGED <<strict_strings, raw_dir_exists, idx, df, profiles, quality_score,
                   console, baseline, perturbs, loader>>

\* lines 349-360: the closing panel; main returns
Finish ==
    /\ pc = "finish"
    /\ pc' = "done"
    /\ exit_code' = "0"
    /\ UNCHANGED <<strict_strings, raw_dir_exists, idx, df, profiles, quality_score,
                   console, scores, reports, baseline, perturbs, loader>>

Next ==
    \/ CheckRawDir
    \/ FileNotFound
    \/ LoadCsvFails
    \/ LoadCsvOk
    \/ Analyze
    \/ Score
    \/ LoopEnd
    \/ PrintProfileTable
    \/ SaveProfileJson
    \/ GenerateMarkdownReport
    \/ Finish

Spec == Init /\ [][Next]_vars

(***************************************************************************)
(* The functions called directly: analyze_dataframe on any frame, then     *)
(* generate_quality_score on the profile it returned, and again on         *)
(* profiles that differ from it in one percentage.                         *)
(***************************************************************************)
CallFile == CSV_FILES[1]

\* the percentages a profile's field is raised to
RaisedPercentages ==
    {Num(5 * PctScale), Num(10 * PctScale), Num(50 * PctScale), Num(100 * PctScale)}

InitCall ==
    /\ InitCommon
    /\ pc = "call_analyze"
    /\ raw_dir_exists = TRUE
    /\ df \in AllFrames
    /\ loader = NoLoader

\* profile = analyze_dataframe(df, filename)
CallAnalyze ==
    /\ pc = "call_analyze"
    /\ LET r == analyze_dataframe(df, CallFile)
       IN  IF Raised(r)
           THEN pc' = "call_raised" /\ profiles' = profiles
           ELSE pc' = "call_score" /\ profiles' = (CallFile :> r.value) @@ profiles
    /\ UNCHANGED <<strict_strings, raw_dir_exists, idx, df, quality_score,
                   console, scores, reports, exit_code, baseline, perturbs, loader>>

\* generate_quality_score(profile)
CallScore ==
    /\ pc = "call_score"
    /\ quality_score' = generate_quality_score(profiles[CallFile])
    /\ pc' = "call_done"
    /\ UNCHANGED <<strict_strings, raw_dir_exists, idx, df, profiles,
                   console, scores, reports, exit_code, baseline, perturbs, loader>>

\* profile with column c's null_percentage set to pct
WithNullPercentage(profile, c, pct) ==
    [profile EXCEPT !.columns_info[c] =
        [k \in DOMAIN profile.columns_info[c] |->
            IF k = "null_percentage" THEN pct ELSE profile.columns_info[c][k]]]

\* another profile, the same but for one column's null_percentage, which is larger
RaiseNullPercentage ==
    /\ pc = "call_done"
    /\ perturbs < MaxPerturb
    /\ \E c \in ColIdx, pct \in RaisedPercentages :
          /\ FGt(pct, profiles[CallFile].columns_info[c].null_percentage)
          /\ profiles' = (CallFile :> WithNullPercentage(profiles[CallFile], c, pct))
    /\ baseline' = [set |-> TRUE, profile |-> profiles[CallFile], score |-> quality_score]
    /\ perturbs' = perturbs + 1
    /\ df' = NoFrame
    /\ pc' = "call_score"
    /\ UNCHANGED <<strict_strings, raw_dir_exists, idx, quality_score,
                   console, scores, reports, exit_code, loader>>

\* another profile, the same but for duplicates.percentage, which is larger
RaiseDuplicatePercentage ==
    /\ pc = "call_done"
    /\ perturbs < MaxPerturb
    /\ \E pct \in RaisedPercentages :
          /\ FGt(pct, profiles[CallFile].duplicates.percentage)
          /\ profiles' = (CallFile :> [profiles[CallFile] EXCEPT !.duplicates.percentage = pct])
    /\ baseline' = [set |-> TRUE, profile |-> profiles[CallFile], score |-> quality_score]
    /\ perturbs' = perturbs + 1
    /\ df' = NoFrame
    /\ pc' = "call_score"
    /\ UNCHANGED <<strict_strings, raw_dir_exists, idx, quality_score,
                   console, scores, reports, exit_code, loader>>

\* generate_markdown_report({filename: profile}); a ZeroDivisionError (line
\* 240, rows = 0) leaves the file without that dataset's column table and issues
CallReport ==
    /\ pc = "call_done"
    /\ reports' = [reports EXCEPT !.markdown = generate_markdown_report(profiles)]
    /\ pc' = IF generate_markdown_report(profiles).complete
             THEN "call_reported" ELSE "call_report_raised"
    /\ UNCHANGED <<strict_strings, raw_dir_exists, idx, df, profiles, quality_score,
                   console, scores, exit_code, baseline, perturbs, loader>>

NextCall ==
    \/ CallAnalyze
    \/ CallScore
    \/ RaiseNullPercentage
    \/ RaiseDuplicatePercentage
    \/ CallReport

SpecCall == InitCall /\ [][NextCall]_vars

(***************************************************************************)
(* gcs_loader.py: upload of the raw files to the bucket.                   *)
(***************************************************************************)
BUCKET_PREFIX == "olist"

\* the --date option as strptime reads it: year, month, day
Dates ==
    {[year |-> 2025, month |-> 1, day |-> 5],
     [year |-> 2025, month |-> 12, day |-> 25],
     [year |-> 2025, month |-> 2, day |-> 30]}
IsLeap(y) == (y % 4 = 0 /\ y % 100 # 0) \/ y % 400 = 0
DaysIn(y, m) ==
    IF m = 2 THEN (IF IsLeap(y) THEN 29 ELSE 28)
    ELSE IF m \in {4, 6, 9, 11} THEN 30 ELSE 31
\* datetime.strptime(date, "%Y-%m-%d"): ValueError for a day the calendar does not have
strptime(date) ==
    IF date.month \in 1..12 /\ date.day \in 1..DaysIn(date.year, date.month)
    THEN Return(date) ELSE Raise("ValueError")
Digit(n) == <<"0", "1", "2", "3", "4", "5", "6", "7", "8", "9">>[n + 1]
\* strftime("%m"), strftime("%d"): two digits, and strftime("%Y"): four
strftime_2(n) == Digit((n \div 10) % 10) \o Digit(n % 10)
strftime_Y(n) == Digit((n \div 1000) % 10) \o Digit((n \div 100) % 10) \o strftime_2(n)

\* the entries RAW_DIR.glob("*.csv") can list: a path is its stem and its
\* suffix; an entry is a file that can be read, or a name whose target is
\* gone (a dangling link, or a file removed after the listing)
Stems == <<"olist_orders_dataset", "olist_customers_dataset", "olist_sellers_dataset">>
Kinds == {"file", "gone"}
Path(stem, kind) == [stem |-> stem, suffix |-> ".csv", kind |-> kind]
PathName(file_path) == file_path.stem \o file_path.suffix
Listings ==
    {l \in SeqsUpTo({Path(Stems[i], k) : i \in 1..MaxFound, k \in Kinds}, MaxFound) :
        \A i, j \in 1..Len(l) : i # j => l[i].stem # l[j].stem}

\* lines 131-145
gcs_path_of(file_path, load_date) ==
    BUCKET_PREFIX \o "/" \o file_path.stem \o "/"
    \o "year=" \o strftime_Y(load_date.year)
    \o "/month=" \o strftime_2(load_date.month)
    \o "/day=" \o strftime_2(load_date.day) \o "/"
    \o PathName(file_path)

\* upload_file_to_gcs (lines 121-160): open() fails for an entry that is
\* gone, upload_from_file fails when the transfer does (sent = FALSE); every
\* exception is turned into (False, message)
upload_file_to_gcs(file_path, load_date, sent) ==
    IF file_path.kind = "file" /\ sent
    THEN [success |-> TRUE, message |-> gcs_path_of(file_path, load_date),
          blobs |-> {gcs_path_of(file_path, load_date)}]
    ELSE [success |-> FALSE,
          message |-> IF file_path.kind = "file" THEN "upload error" ELSE "No such file",
          blobs |-> {}]

\* file_path.stat() (line 188): raises FileNotFoundError for an entry that is gone
stat(file_path) ==
    IF file_path.kind = "file" THEN Return("st_size") ELSE Raise("FileNotFoundError")

\* lines 199-213 (the timestamp and the bucket name are left out)
create_load_manifest(load_date, results) ==
    [load_date |-> load_date,
     bucket_prefix |-> BUCKET_PREFIX,
     files |-> results,
     total_files |-> Cardinality(DOMAIN results),
     successful_uploads |-> Cardinality({t \in DOMAIN results : results[t].status = "uploaded"}),
     failed_uploads |-> Cardinality({t \in DOMAIN results : results[t].status = "failed"})]

profiler_vars == <<strict_strings, df, profiles, quality_score, console, scores,
                   reports, baseline, perturbs>>

InitLoader ==
    /\ InitCommon
    /\ pc = "gcs_start"
    /\ df = NoFrame
    /\ raw_dir_exists \in BOOLEAN
    /\ \E date \in Dates, auth_ok \in BOOLEAN, bucket_exists \in BOOLEAN, raw_dir \in Listings :
          /\ ~raw_dir_exists => raw_dir = <<>>
          /\ loader = [NoLoader EXCEPT !.date = date, !.auth_ok = auth_ok,
                                       !.bucket_exists = bucket_exists, !.raw_dir = raw_dir]

GcsExit(status) == pc' = "gcs_exited" /\ exit_code' = status

\* lines 303-308
ValidateDate ==
    /\ pc = "gcs_start"
    /\ IF Raised(strptime(loader.date))
       THEN GcsExit("1")
       ELSE pc' = "gcs_auth" /\ exit_code' = exit_code
    /\ UNCHANGED <<raw_dir_exists, idx, loader, profiler_vars>>

\* lines 321 and 60-81; the exception goes to main's handler (lines 349-356)
AuthenticateGcs ==
    /\ pc = "gcs_auth"
    /\ IF loader.auth_ok
       THEN pc' = "gcs_bucket" /\ exit_code' = exit_code
       ELSE GcsExit("1")
    /\ UNCHANGED <<raw_dir_exists, idx, loader, profiler_vars>>

\* lines 169 and 84-99
GetOrCreateBucket ==
    /\ pc = "gcs_bucket"
    /\ IF loader.bucket_exists
       THEN pc' = "gcs_files" /\ exit_code' = exit_code
       ELSE GcsExit("1")
    /\ UNCHANGED <<raw_dir_exists, idx, loader, profiler_vars>>

\* lines 170-173 and 102-118; with no file upload_files returns {} and main
\* exits with status 1 (lines 346-347)
GetCsvFiles ==
    /\ pc = "gcs_files"
    /\ LET csv_files == IF raw_dir_exists THEN loader.raw_dir ELSE <<>>
       IN  /\ loader' = [loader EXCEPT !.csv_files = csv_files]
           /\ IF csv_files = <<>>
              THEN GcsExit("1")
              ELSE pc' = "gcs_upload" /\ exit_code' = exit_code
    /\ idx' = 1
    /\ UNCHANGED <<raw_dir_exists, profiler_vars>>

\* lines 184-194: one turn of the loop of upload_files.  The stat() of line
\* 188 is outside upload_file_to_gcs's try, so for an entry that is gone
\* its FileNotFoundError leaves upload_files and reaches main's handler
UploadFile ==
    /\ pc = "gcs_upload"
    /\ idx <= Len(loader.csv_files)
    /\ \E sent \in BOOLEAN :
          LET file_path == loader.csv_files[idx]
              up == upload_file_to_gcs(file_path, loader.date, sent)
              table_name == file_path.stem
          IN  IF Raised(stat(file_path))
              THEN /\ loader' = [loader EXCEPT !.blobs = @ \cup up.blobs]
                   /\ GcsExit("1")
                   /\ idx' = idx
              ELSE /\ loader' = [loader EXCEPT
                          !.blobs = @ \cup up.blobs,
                          !.results = (table_name :>
                                          [status |-> IF up.success THEN "uploaded" ELSE "failed",
                                           message |-> up.message]) @@ @]
                   /\ idx' = idx + 1
                   /\ pc' = pc /\ exit_code' = exit_code
    /\ UNCHANGED <<raw_dir_exists, profiler_vars>>

\* lines 196 and 324-325: upload_files returns its results, which are not
\* empty, and the manifest is written
CreateLoadManifest ==
    /\ pc = "gcs_upload"
    /\ idx > Len(loader.csv_files)
    /\ loader' = [loader EXCEPT !.manifest = create_load_manifest(loader.date, loader.results)]
    /\ pc' = "gcs_summary"
    /\ UNCHANGED <<raw_dir_exists, idx, exit_code, profiler_vars>>

\* lines 326-345: the summary, then success if any file was uploaded
GcsFinish ==
    /\ pc = "gcs_summary"
    /\ IF \E t \in DOMAIN loader.results : loader.results[t].status = "uploaded"
       THEN pc' = "gcs_done" /\ exit_code' = "0"
       ELSE GcsExit("1")
    /\ UNCHANGED <<raw_dir_exists, idx, loader, profiler_vars>>

NextLoader ==
    \/ ValidateDate
    \/ AuthenticateGcs
    \/ GetOrCreateBucket
    \/ GetCsvFiles
    \/ UploadFile
    \/ CreateLoadManifest
    \/ GcsFinish

SpecLoader == InitLoader /\ [][NextLoader]_vars

(***************************************************************************)
(* Properties.                                                             *)
(***************************************************************************)
\* analyze_dataframe has returned the profile of df, which is still in hand
Analysed == pc \in {"call_score", "call_done"} /\ perturbs = 0
\* generate_quality_score has returned the score of the profile in hand
Scored == pc = "call_done"
TheProfile == profiles[CallFile]

\* C1: for every column of every profile analyze_dataframe returns,
\* non_null + null equals the profile's row count, the number of rows of
\* the frame.
C1_NullCountsSumToRows ==
    Analysed =>
        /\ TheProfile.rows = Len(df.rows)
        /\ \A c \in ColIdx :
              TheProfile.columns_info[c].non_null + TheProfile.columns_info[c].null
                  = TheProfile.rows

\* a column with missing values and with values, one of them the empty string
C1_Witness ==
    /\ Analysed
    /\ \E c \in ColIdx :
          /\ TheProfile.columns_info[c].null > 0
          /\ TheProfile.columns_info[c].non_null > 0
          /\ df.dtypes[c] = "object"
          /\ \E i \in 1..Len(df.rows) : df.rows[i][c] = Val("")

\* the score as the closed form states it: 100 less half the sum of the
\* columns' null percentages less twice the duplicate percentage, floored
\* once at 0; with a nan among the percentages Python's max(0, nan) is 0
ClosedFormScore(profile) ==
    LET cols == 1..Len(profile.columns_info)
        anyNaN == \/ IsNaN(profile.duplicates.percentage)
                  \/ \E c \in cols : IsNaN(profile.columns_info[c].null_percentage)
        nulls == SumOver([c \in cols |-> profile.columns_info[c].null_percentage.val], cols)
        raw == 100 * ScoreScale
                 - (nulls * ScoreScale) \div (2 * PctScale)
                 - (2 * profile.duplicates.percentage.val * ScoreScale) \div PctScale
    IN  IF anyNaN \/ raw < 0 THEN Num(0) ELSE Num(raw)

\* C2: generate_quality_score returns max(0, 100 - 0.5 * (sum over the
\* columns of null_percentage) - 2 * duplicates.percentage): the null
\* penalty is summed, not averaged, and the floor is applied once at the end.
C2_ScoreIsClosedForm ==
    Scored => quality_score = ClosedFormScore(TheProfile)

\* two columns with different non-zero null percentages, duplicates, and a
\* score above the floor
C2_Witness ==
    /\ Scored
    /\ FGt(TheProfile.columns_info[1].null_percentage, Num(0))
    /\ FGt(TheProfile.columns_info[2].null_percentage,
           TheProfile.columns_info[1].null_percentage)
    /\ FGt(TheProfile.duplicates.percentage, Num(0))
    /\ FGt(quality_score, Num(0))

\* C3: the score of every profile analyze_dataframe produces is a number
\* in [0, 100].
C3_ScoreInRange ==
    (Scored /\ perturbs = 0) =>
        /\ ~IsNaN(quality_score)
        /\ quality_score.val >= 0
        /\ quality_score.val <= 100 * ScoreScale

\* the deductions of an analysed profile add up to more than 100 points
C3_Witness ==
    /\ Scored
    /\ perturbs = 0
    /\ ~IsNaN(TheProfile.duplicates.percentage)
    /\ FGt(FAdd(FSum([c \in ColIdx |->
                         null_penalty(TheProfile.columns_info[c].null_percentage)], 1),
                duplicate_penalty(TheProfile.duplicates.percentage)),
           Num(100 * ScoreScale))
    /\ quality_score = Num(0)

\* C4: of two profiles that differ only in one column's null_percentage,
\* or only in duplicates.percentage, the one with the larger percentage
\* has a score less than or equal to the other's.
C4_ScoreMonotone ==
    (Scored /\ baseline.set) =>
        /\ ~IsNaN(quality_score)
        /\ ~IsNaN(baseline.score)
        /\ quality_score.val <= baseline.score.val

\* a raised null percentage that lowered the score
C4_Witness ==
    /\ Scored
    /\ baseline.set
    /\ baseline.profile.duplicates = TheProfile.duplicates
    /\ \E c \in ColIdx : FGt(TheProfile.columns_info[c].null_percentage,
                             baseline.profile.columns_info[c].null_percentage)
    /\ quality_score.val < baseline.score.val

\* every score computed for one file, by main and by each writer, is the same
ScoresAgree == \A s \in scores, t \in scores : s[2] = t[2] => s[3] = t[3]

\* a step leaves every stored profile as it was
ProfilesKept == \A f \in DOMAIN profiles : f \in DOMAIN profiles' /\ profiles'[f] = profiles[f]

\* a step in which a writer calls generate_quality_score changes nothing
\* but the writer's own output
WritersChangeOnlyOutput ==
    pc \in {"table", "json", "report"} =>
        UNCHANGED <<strict_strings, raw_dir_exists, idx, df, profiles, quality_score,
                    console, baseline, perturbs, loader>>

\* C5: generate_quality_score is a pure function of the profile: the calls
\* made on one profile in main, print_profile_table, save_profile_json and
\* generate_markdown_report return the same value, and no call changes the
\* profile or any other state of the program.
C5_ScorePure == [](ScoresAgree) /\ [][ProfilesKept /\ WritersChangeOnlyOutput]_vars

\* a score below 100 computed four times for one file
C5_Witness ==
    /\ pc = "done"
    /\ \E f \in DOMAIN profiles :
          /\ FGt(Num(100 * ScoreScale), generate_quality_score(profiles[f]))
          /\ \A caller \in {"main", "print_profile_table", "save_profile_json",
                            "generate_markdown_report"} :
                \E s \in scores : s[1] = caller /\ s[2] = f

\* analyze_dataframe was applied to a frame with no rows
ZeroRowsAnalysed ==
    /\ pc \in {"call_raised", "call_score", "call_done"}
    /\ perturbs = 0
    /\ df # NoFrame
    /\ Len(df.rows) = 0

\* C6: profiling a dataset with zero rows raises no error and yields
\* rows = 0, null_percentage = 0 for every column, duplicates.percentage = 0
\* and a quality score of 100.
C6_ZeroRows ==
    ZeroRowsAnalysed =>
        /\ pc # "call_raised"
        /\ TheProfile.rows = 0
        /\ \A c \in ColIdx : TheProfile.columns_info[c].null_percentage = Num(0)
        /\ TheProfile.duplicates.percentage = Num(0)
        /\ Scored => quality_score = Num(100 * ScoreScale)

\* the rows that are equal in every column to some earlier row
RepeatedRows(frame) ==
    {i \in 1..Len(frame.rows) : \E j \in 1..(i - 1) : frame.rows[j] = frame.rows[i]}

\* rows 1 and 3 of four are the same and no other two are
OneRepeatOfFour(frame) ==
    /\ Len(frame.rows) = 4
    /\ frame.rows[1] = frame.rows[3]
    /\ \A i, j \in 1..4 : (i < j /\ frame.rows[i] = frame.rows[j]) => (i = 1 /\ j = 3)

\* C7: duplicates.total is the number of rows equal in every column to some
\* earlier row; for rows > 0 it is at most rows - 1 and duplicates.percentage
\* is total / rows * 100 (kept to 2 decimals) and lies in [0, 100]; 4 rows
\* with rows 1 and 3 identical give total 1 and percentage 25.
C7_Duplicates ==
    Analysed =>
        LET n == Len(df.rows)
            d == TheProfile.duplicates
        IN  /\ d.total = Cardinality(RepeatedRows(df))
            /\ n > 0 =>
                  /\ d.total <= n - 1
                  /\ ~IsNaN(d.percentage)
                  /\ d.percentage.val >= 0
                  /\ d.percentage.val <= 100 * PctScale
                  /\ 2 * (d.percentage.val * n - d.total * 100 * PctScale) <= n
                  /\ 2 * (d.total * 100 * PctScale - d.percentage.val * n) <= n
            /\ OneRepeatOfFour(df) => (d.total = 1 /\ d.percentage = Num(25 * PctScale))

C7_Witness == Analysed /\ df # NoFrame /\ OneRepeatOfFour(df)

\* C8: for every column, unique is the number of distinct values that are
\* not null, hence unique <= non_null.
C8_UniqueNonNull ==
    Analysed =>
        \A c \in ColIdx :
            /\ TheProfile.columns_info[c].unique =
                   Cardinality({v \in CellsOf(df.dtypes[c]) \ {NULL} :
                                   \E i \in 1..Len(df.rows) : df.rows[i][c] = v})
            /\ TheProfile.columns_info[c].unique <= TheProfile.columns_info[c].non_null

\* a column with a missing value and a value that occurs twice
C8_Witness ==
    /\ Analysed
    /\ \E c \in ColIdx :
          /\ TheProfile.columns_info[c].null > 0
          /\ TheProfile.columns_info[c].unique > 0
          /\ TheProfile.columns_info[c].unique < TheProfile.columns_info[c].non_null

\* the files of CSV_FILES the loop has printed a line for
Attempted == {console[i][1] : i \in 1..Len(console)}
ConsoleSaid(what) == {console[i][1] : i \in {j \in 1..Len(console) : console[j][2] = what}}

\* C9: a failure on one dataset (file missing, load error, or an error
\* raised while analysing it) never aborts the others: once the run has
\* ended, every entry of CSV_FILES was attempted, and the reports were
\* written if any dataset was profiled.
C9_FailureNeverAborts ==
    (exit_code # Running /\ raw_dir_exists) =>
        /\ idx > Len(CSV_FILES)
        /\ Attempted = FileNames
        /\ DOMAIN profiles # {} => reports.markdown # <<>>

\* the loop over CSV_FILES is over
AfterLoop ==
    \/ pc = "loop" /\ idx > Len(CSV_FILES)
    \/ pc \in {"table", "json", "report", "finish", "done"}
    \/ pc = "exited" /\ raw_dir_exists

\* C10 as stated: after the loop the profiles mapping has one entry per
\* dataset of CSV_FILES, the missing and the failed ones included.
C10_EveryFileHasEntry == AfterLoop => DOMAIN profiles = FileNames

\* C10 amended: a dataset that is missing or fails to load is reported on
\* the console only; the profiles mapping, which is what the writers get
\* and what the profile document holds, has exactly one entry per dataset
\* that was loaded and analysed.
C10_OnlyProfiledHaveEntry ==
    /\ DOMAIN profiles \cap (ConsoleSaid("Not found") \cup ConsoleSaid("Failed to load")) = {}
    /\ AfterLoop =>
          /\ DOMAIN profiles = ConsoleSaid("Quality")
          /\ Attempted = FileNames
    /\ reports.json # <<>> => reports.json.profiles = profiles

\* the run ended with one file missing or failed and another one profiled
C10_Witness ==
    /\ pc = "done"
    /\ ConsoleSaid("Not found") \cup ConsoleSaid("Failed to load") # {}
    /\ DOMAIN profiles # {}
    /\ reports.json.summary.total_tables < Len(CSV_FILES)

\* generate_markdown_report has written the section of the profile in hand
Reported == pc = "call_reported"
TheSection == reports.markdown.sections[1]
Flagged(section, issue) == \E k \in 1..Len(section.issues) : section.issues[k] = issue

\* C11: in the document report a column is in a dataset's issues list
\* exactly when its null_percentage is above 10, the duplicates issue is
\* there exactly when duplicates.percentage is above 5 (10 and 5
\* themselves are not flagged), and the line "No significant quality
\* issues detected" is written exactly when neither holds.
C11_IssuesIffAboveThreshold ==
    Reported =>
        /\ Len(reports.markdown.sections) = 1
        /\ \A c \in ColIdx :
              Flagged(TheSection, [kind |-> "nulls", column |-> Columns[c]])
                  <=> /\ ~IsNaN(TheProfile.columns_info[c].null_percentage)
                      /\ TheProfile.columns_info[c].null_percentage.val > 10 * PctScale
        /\ Flagged(TheSection, [kind |-> "duplicates", column |-> ""])
              <=> /\ ~IsNaN(TheProfile.duplicates.percentage)
                  /\ TheProfile.duplicates.percentage.val > 5 * PctScale
        /\ TheSection.no_issues_line
              <=> /\ \A c \in ColIdx :
                        TheProfile.columns_info[c].null_percentage.val <= 10 * PctScale
                  /\ TheProfile.duplicates.percentage.val <= 5 * PctScale

\* one column at exactly 10 percent and not flagged, the other above it and
\* flagged, duplicates at exactly 5 percent and not flagged
C11_Witness ==
    /\ Reported
    /\ TheProfile.columns_info[1].null_percentage = Num(10 * PctScale)
    /\ FGt(TheProfile.columns_info[2].null_percentage, Num(10 * PctScale))
    /\ TheProfile.duplicates.percentage = Num(5 * PctScale)
    /\ Len(TheSection.issues) = 1
    /\ ~TheSection.no_issues_line

\* the score main printed for a profiled file, and the total over a set of files
MainScore(f) == CHOOSE x \in {sc[3] : sc \in {t \in scores : t[1] = "main" /\ t[2] = f}} : TRUE
RECURSIVE ScoreTotal(_)
ScoreTotal(fs) ==
    IF fs = {} THEN 0
    ELSE LET f == CHOOSE x \in fs : TRUE
         IN  MainScore(f).val + ScoreTotal(fs \ {f})
JsonWritten == reports.json # NoReports.json
MarkdownWritten == reports.markdown # NoReports.markdown

\* C12: in the saved profile document summary.total_tables is the number
\* of entries of its profiles mapping and summary.avg_quality_score is the
\* sum of the entries' quality scores divided by that number (here cut to
\* a whole unit of 1/200 point); the executive summary of the document
\* report carries the same average.
C12_SummaryIsAverage ==
    JsonWritten =>
        LET doc == reports.json
            n == Cardinality(DOMAIN doc.profiles)
            avg == doc.summary.avg_quality_score
        IN  /\ doc.summary.total_tables = n
            /\ n > 0
            /\ ~IsNaN(avg)
            /\ n * avg.val <= ScoreTotal(DOMAIN doc.profiles)
            /\ ScoreTotal(DOMAIN doc.profiles) < n * avg.val + n
            /\ MarkdownWritten => reports.markdown.avg_score = avg

\* both writers have run on two profiles of different scores
C12_Witness ==
    /\ pc = "done"
    /\ reports.json.summary.total_tables = 2
    /\ MainScore(CSV_FILES[1]) # MainScore(CSV_FILES[2])
    /\ reports.markdown.avg_score = reports.json.summary.avg_quality_score
    /\ 2 * reports.json.summary.avg_quality_score.val
           = MainScore(CSV_FILES[1]).val + MainScore(CSV_FILES[2]).val

\* analyze_dataframe has been called on a frame with rows, and returned or raised
RowsAnalysed ==
    /\ pc \notin {"call_analyze"}
    /\ perturbs = 0
    /\ df # NoFrame
    /\ Len(df.rows) > 0
NumericFields == {"mean", "median", "min", "max", "std"}

TextColumn(c) == df.dtypes[c] = "object" /\ NonNull(df, c) # {}
TextFields == {"min_length", "max_length", "empty_strings"}
IsExample(c) ==
    /\ Len(df.rows) = 3
    /\ df.rows[1][c] = Val("") /\ df.rows[2][c] = Val("ab") /\ df.rows[3][c] = NULL

\* C14: for a text column empty_strings is the number of non-null values
\* of length 0, and min_length and max_length are the least and the
\* greatest length over the non-null values, missing values taking no
\* part; the column ["", "ab", null] gives non_null 2, empty_strings 1,
\* min_length 0 and max_length 2.
C14_TextStats ==
    Analysed =>
        \A c \in ColIdx : TextColumn(c) =>
            LET info == TheProfile.columns_info[c]
                lens == {Len(df.rows[i][c][1]) : i \in NonNull(df, c)}
            IN  /\ TextFields \subseteq DOMAIN info
                /\ info.empty_strings =
                       Cardinality({i \in NonNull(df, c) : df.rows[i][c] = Val("")})
                /\ info.min_length \in lens /\ \A l \in lens : info.min_length <= l
                /\ info.max_length \in lens /\ \A l \in lens : info.max_length >= l
                /\ IsExample(c) =>
                      /\ info.non_null = 2 /\ info.empty_strings = 1
                      /\ info.min_length = 0 /\ info.max_length = 2

TableWritten == reports.table # NoReports.table
InLoopBody == pc \in {"analyze", "score"}
Handled == {CSV_FILES[i] : i \in 1..Len(console)}

\* C16: the datasets are processed one after the other in CSV_FILES
\* order, the load, analysis and score of one being complete before the
\* next is touched; the summary table, the profile document and the
\* document report are produced only after every dataset of CSV_FILES has
\* been processed, in that order.
C16_SequentialThenWriters ==
    /\ \A i \in 1..Len(console) : console[i][1] = CSV_FILES[i]
    /\ pc \in {"loop", "analyze", "score"} => Len(console) = idx - 1
    /\ InLoopBody => idx <= Len(CSV_FILES)
    /\ df # NoFrame => InLoopBody \/ (pc = "crashed" /\ ~TableWritten)
    /\ DOMAIN profiles \subseteq
           Handled \cup (IF pc = "score" THEN {CSV_FILES[idx]} ELSE {})
    /\ TableWritten => Len(console) = Len(CSV_FILES) /\ ~InLoopBody
    /\ JsonWritten => TableWritten
    /\ MarkdownWritten => JsonWritten

\* every file was loaded, analysed and scored, then the three outputs were written
C16_Witness ==
    /\ pc = "done"
    /\ \A i \in 1..Len(CSV_FILES) : console[i] = <<CSV_FILES[i], "Quality">>
    /\ TableWritten /\ JsonWritten /\ MarkdownWritten

\* C17: when the raw directory does not exist or no dataset could be
\* profiled, the run ends with status 1 before print_profile_table,
\* save_profile_json and generate_markdown_report run: nothing is
\* written, and no writer is ever entered with an empty profiles mapping,
\* so the average over no profile is never evaluated.
C17_NoReportWithoutProfiles ==
    /\ pc \in {"table", "json", "report", "finish", "done"} =>
          raw_dir_exists /\ DOMAIN profiles # {}
    /\ (~raw_dir_exists \/ DOMAIN profiles = {}) => reports = NoReports
    /\ (~raw_dir_exists /\ pc # "start") => pc = "exited" /\ exit_code = "1"
    /\ (DOMAIN profiles = {} /\ pc \in {"exited", "crashed", "done"}) => exit_code = "1"
    /\ pc = "exited" => exit_code = "1" /\ reports = NoReports

\* every file of CSV_FILES was missing or failed to load, and the run ended
C17_Witness ==
    /\ pc = "exited"
    /\ raw_dir_exists
    /\ Len(console) = Len(CSV_FILES)
    /\ DOMAIN profiles = {}
    /\ exit_code = "1"
    /\ reports = NoReports

\* the object path of the docstrings (lines 129 and 291-292), directly under the bucket
TwoDigits(n) == IF n < 10 THEN "0" \o Digit(n) ELSE Digit(n \div 10) \o Digit(n % 10)
PathUnderBucket(file_path, date) ==
    file_path.stem \o "/year=" \o Digit(date.year \div 1000) \o Digit((date.year \div 100) % 10)
    \o TwoDigits(date.year % 100) \o "/month=" \o TwoDigits(date.month)
    \o "/day=" \o TwoDigits(date.day) \o "/" \o file_path.stem \o ".csv"
FoundFiles == {loader.csv_files[i] : i \in 1..Len(loader.csv_files)}
Uploaded == {t \in DOMAIN loader.results : loader.results[t].status = "uploaded"}

\* C15: upload_file_to_gcs stores each file at the object path
\* [table_name]/year=YYYY/month=MM/day=DD/[filename].csv directly under
\* the bucket, table_name being the file name without .csv and YYYY, MM,
\* DD the zero-padded parts of the load date.
C15_ObjectPath ==
    /\ \A f \in FoundFiles :
          f.stem \in Uploaded => PathUnderBucket(f, loader.date) \in loader.blobs
    /\ loader.blobs \subseteq {PathUnderBucket(f, loader.date) : f \in FoundFiles}

LoaderEnded == pc \in {"gcs_done", "gcs_exited"}
LoaderCouldStart ==
    ~Raised(strptime(loader.date)) /\ loader.auth_ok /\ loader.bucket_exists

\* C18: in the loader a failed upload of one file does not stop the rest:
\* once the run has ended (authentication and bucket lookup having
\* succeeded) every CSV file found has exactly one result, 'uploaded' or
\* 'failed', the manifest has total_files = successful_uploads +
\* failed_uploads, and the exit status is 1 exactly when no file was
\* found or no upload succeeded.
C18_EveryFileGetsResult ==
    (LoaderEnded /\ LoaderCouldStart) =>
        /\ DOMAIN loader.results = {f.stem : f \in FoundFiles}
        /\ \A t \in DOMAIN loader.results :
              loader.results[t].status \in {"uploaded", "failed"}
        /\ loader.manifest # NoLoader.manifest =>
              /\ loader.manifest.total_files = Len(loader.csv_files)
              /\ loader.manifest.total_files =
                     loader.manifest.successful_uploads + loader.manifest.failed_uploads
        /\ exit_code = "1" <=> (FoundFiles = {} \/ Uploaded = {})
=============================================================================
